---- MODULE Spec2Model ----
(***************************************************************************)
(* CFDI payroll XML ingestion of streamlit_personal_finance:               *)
(*   backend/xml_processing/xml_parser.py  (get_namespace,                 *)
(*       extract_emisor_nomina_info, parse_deductions, parse_xml)          *)
(*   backend/xml_processing/load_files.py  (load_xmls)                     *)
(*                                                                         *)
(* and the record store and UI glue around it:                             *)
(*   db/crud.py  (get_all, get_by_field, create, update, delete)           *)
(*   components/expenses/tabs/insert_tab.py  (CSV bulk insert)             *)
(*   components/table_generator.py, expenses/tabs/table_tab.py (pages)     *)
(*   components/database_manager  (authenticate_user, upload_db)           *)
(*                                                                         *)
(* The specifications share the definitions of this module:                *)
(*   SpecDed    parse_deductions, one loop iteration per step              *)
(*   SpecParse  parse_xml called on one uploaded file                      *)
(*   Spec       load_xmls over a batch, one loop iteration per step        *)
(*   SpecCrud   calls of db/crud.py on one session and one table           *)
(*   SpecCsv    create_expense_transactions_from_file, one row per step    *)
(*   SpecPage   renders of a paginated table                               *)
(*   SpecSwap   renders of the database upload tab                         *)
(***************************************************************************)
EXTENDS Integers, Sequences, FiniteSets

VARIABLES
    \* ---- parse_deductions (SpecDed)
    ded_nomina,      \* the nomina argument: an element or the absent element
    imss,            \* local imss
    isr,             \* local isr
    scan_idx,        \* number of Deduccion entries the for loop has inspected
    scan_pc,         \* "call" | "scan" | "return"
    \* ---- parse_xml (SpecParse)
    doc,             \* the uploaded file handed to parse_xml
    doc_pos,         \* read position of its stream: "start" | "eof"
    parse_result,    \* result of the most recent call
    first_result,    \* result of the first call
    parse_calls,     \* number of calls made
    \* ---- load_xmls (Spec)
    uploaded_files,  \* the argument uploaded_files
    stream_pos,      \* file id -> read position of that file's stream
    sorted_files,    \* local sorted_files
    files_data,      \* local files_data
    data_src,        \* for each element of files_data, the id of its file
    attempted,       \* ids of the files handed to parse_xml, in call order
    pc,              \* "idle" | "loop" | "tail" | "done"
    st_errors,       \* st.error calls made by load_xmls
    expander_shown,  \* whether the "XML Files Details" expander was shown
    \* ---- the process
    stdout,          \* lines printed by parse_xml
    \* ---- db/crud.py on one session and one table (SpecCrud)
    table,           \* the committed rows of the table: id -> row
    session,         \* state of the Session: "active" | "deactive"
    crud_call,       \* the most recent call: function and arguments
    crud_ret,        \* what it returned or raised
    table_before,    \* the rows of the table when that call was made
    deleted,         \* ids of the rows deleted so far
    \* ---- create_expense_transactions_from_file (SpecCsv)
    df,              \* the rows of the DataFrame
    csv_row,         \* number of rows df.iterrows() has yielded
    csv_session,     \* state of the Session
    transactions,    \* rows inserted into expenses_transactions: row indexes
    csv_results,     \* local results: success and failed counts
    csv_errors,      \* st.error calls: the row indexes reported
    csv_pc,          \* "idle" | "loop" | "done"
    \* ---- display_table / display_expenses_data (SpecPage)
    total_rows,      \* len(data)
    rows_per_page,   \* the selected rows-per-page option, or the env size
    selected_page,   \* value of the page number input
    paginated_data,  \* the row positions shown
    \* ---- database_manager_upload_tab (SpecSwap)
    password,        \* value of the password text input
    secret_password, \* os.getenv("DB_PASSWORD")
    db_file_name,    \* os.getenv("DB_NAME")
    uploaded_db,     \* value of the file uploader: None or a file
    db_file,         \* content of the database file in the project root
    swap_msgs        \* messages shown by the tab

dedVars == <<ded_nomina, imss, isr, scan_idx, scan_pc>>
parseVars == <<doc, doc_pos, parse_result, first_result, parse_calls>>
loadVars == <<uploaded_files, stream_pos, sorted_files, files_data, data_src,
              attempted, pc, st_errors, expander_shown>>
crudVars == <<table, session, crud_call, crud_ret, table_before, deleted>>
csvVars == <<df, csv_row, csv_session, transactions, csv_results, csv_errors,
            csv_pc>>
pageVars == <<total_rows, rows_per_page, selected_page, paginated_data>>
swapVars == <<password, secret_password, db_file_name, uploaded_db, db_file,
              swap_msgs>>
appVars == <<crudVars, csvVars, pageVars, swapVars>>
xmlVars == <<dedVars, parseVars, loadVars, stdout>>
vars == <<dedVars, parseVars, loadVars, stdout, appVars>>

(***************************************************************************)
(* Bounds of the model.                                                    *)
(***************************************************************************)
MaxDeducciones == 3
MaxFiles == 3
MaxParseCalls == 2

BoundedSeq(S, n) == UNION {[1..k -> S] : k \in 0..n}

(***************************************************************************)
(* Python values.  None is the value dict.get / Element.get / find return  *)
(* for a missing key, attribute or node.                                   *)
(***************************************************************************)
None == "None"

\* Element.get(key, default): the attribute's text, or default when missing.
AttrGet(value, default) == IF value = None THEN default ELSE value

(***************************************************************************)
(* XML elements.  An element that find() does not find is the record with  *)
(* present = FALSE; a missing attribute has the value None.                *)
(***************************************************************************)
TipoValues == {None, "001", "002", "003"}
ImporteValues == {None, "0.00", "50.00", "100.00", "150.00"}

\* <nomina12:Deduccion TipoDeduccion=... Importe=.../>
DeduccionEntries == [TipoDeduccion : TipoValues, Importe : ImporteValues]

Deduccion(tipo, importe) == [TipoDeduccion |-> tipo, Importe |-> importe]

\* <nomina12:Deducciones> with its Deduccion children in document order
NoDeducciones == [present |-> FALSE, entries |-> <<>>]
Deducciones(entries) == [present |-> TRUE, entries |-> entries]

\* <nomina12:Receptor Puesto=.../>
NoReceptor == [present |-> FALSE, Puesto |-> None]
Receptor(puesto) == [present |-> TRUE, Puesto |-> puesto]

\* <nomina12:Nomina FechaInicialPago=... FechaFinalPago=...>; others counts
\* its child elements other than Receptor and Deducciones (Percepciones, ...)
NoNomina ==
    [present |-> FALSE, FechaInicialPago |-> None, FechaFinalPago |-> None,
     receptor |-> NoReceptor, deducciones |-> NoDeducciones, others |-> 0]
Nomina(inicial, final, receptor, deducciones, others) ==
    [present |-> TRUE, FechaInicialPago |-> inicial, FechaFinalPago |-> final,
     receptor |-> receptor, deducciones |-> deducciones, others |-> others]

\* len(element): the number of child elements
DeduccionesLen(d) == Len(d.entries)
NominaLen(n) ==
    (IF n.receptor.present THEN 1 ELSE 0)
    + (IF n.deducciones.present THEN 1 ELSE 0) + n.others

\* bool(x) of the result of find(): None is false, and an Element is true
\* exactly when it has child elements (Element.__bool__ is len(self) != 0).
Truthy(present, len) == present /\ len # 0

(***************************************************************************)
(* parse_deductions (xml_parser.py 46-76)                                  *)
(***************************************************************************)
\* State of the for loop: the two locals and whether a break was executed.
ScanStart == [imss |-> "0.00", isr |-> "0.00", brk |-> FALSE]

\* A variant of the loop body that never executes break.
DeduccionBodyNoBreak(st, deduccion) ==
    LET tipo_deduccion == deduccion.TipoDeduccion
        importe == AttrGet(deduccion.Importe, "0.00")
    IN  IF tipo_deduccion = "001"
        THEN [st EXCEPT !.imss = importe]
        ELSE IF tipo_deduccion = "002"
             THEN [st EXCEPT !.isr = importe]
             ELSE st

\* A variant of the loop body that takes every type other than "001" for ISR.
DeduccionBodyElse(st, deduccion) ==
    LET tipo_deduccion == deduccion.TipoDeduccion
        importe == AttrGet(deduccion.Importe, "0.00")
    IN  IF tipo_deduccion = "001"
        THEN [imss |-> importe, isr |-> st.isr, brk |-> st.isr # "0.00"]
        ELSE [imss |-> st.imss, isr |-> importe, brk |-> st.imss # "0.00"]

\* One execution of the loop body, lines 66-75.
DeduccionBody(st, deduccion) ==
    LET tipo_deduccion == deduccion.TipoDeduccion
        importe == AttrGet(deduccion.Importe, "0.00")
    IN  IF tipo_deduccion = "001"
        THEN [imss |-> importe, isr |-> st.isr, brk |-> st.isr # "0.00"]
        ELSE IF tipo_deduccion = "002"
             THEN [imss |-> st.imss, isr |-> importe, brk |-> st.imss # "0.00"]
             ELSE st

\* The for loop over entries i..Len(entries), from loop state st.
RECURSIVE ScanFrom(_, _, _)
ScanFrom(st, entries, i) ==
    IF st.brk \/ i > Len(entries)
    THEN st
    ELSE ScanFrom(DeduccionBody(st, entries[i]), entries, i + 1)

\* parse_deductions(nomina, namespaces) as a function of the nomina element
ParseDeductions(nomina) ==
    IF ~nomina.present
    THEN <<"0.00", "0.00">>
    ELSE LET deducciones == nomina.deducciones
         IN  IF Truthy(deducciones.present, DeduccionesLen(deducciones))
             THEN LET st == ScanFrom(ScanStart, deducciones.entries, 1)
                  IN  <<st.imss, st.isr>>
             ELSE <<"0.00", "0.00">>

(***************************************************************************)
(* Text handled character by character: a tuple of one-character strings.  *)
(***************************************************************************)
Contains(s, c) == \E i \in 1..Len(s) : s[i] = c

\* s.split(c)[0]: the part of s before the first c (s itself without c)
SplitHead(s, c) ==
    IF Contains(s, c)
    THEN LET k == CHOOSE i \in 1..Len(s) :
                    s[i] = c /\ \A j \in 1..(i - 1) : s[j] # c
         IN  SubSeq(s, 1, k - 1)
    ELSE s

\* s.split(c)[-1]: the part of s after the last c (s itself without c)
SplitLast(s, c) ==
    IF Contains(s, c)
    THEN LET k == CHOOSE i \in 1..Len(s) :
                    s[i] = c /\ \A j \in (i + 1)..Len(s) : s[j] # c
         IN  SubSeq(s, k + 1, Len(s))
    ELSE s

\* s.strip(c): s without its leading and trailing run of c
RECURSIVE Strip(_, _)
Strip(s, c) ==
    IF s = <<>>
    THEN s
    ELSE IF Head(s) = c
         THEN Strip(Tail(s), c)
         ELSE IF s[Len(s)] = c
              THEN Strip(SubSeq(s, 1, Len(s) - 1), c)
              ELSE s

SatCfdPrefix ==
    <<"h", "t", "t", "p", ":", "/", "/", "w", "w", "w", ".", "s", "a", "t",
      ".", "g", "o", "b", ".", "m", "x", "/", "c", "f", "d", "/">>
Comprobante == <<"C", "o", "m", "p", "r", "o", "b", "a", "n", "t", "e">>

\* The tag ElementTree gives an element of namespace uri: {uri}local
QName(uri, local) == <<"{">> \o uri \o <<"}">> \o local

\* A namespace URI without "/"
UrnCfd == <<"u", "r", "n", ":", "c", "f", "d">>

\* Root tags: CFDI 4.0, CFDI 3.x, no namespace, a namespace ending in "/",
\* a namespace without "/"
RootTags ==
    {QName(SatCfdPrefix \o <<"4">>, Comprobante),
     QName(SatCfdPrefix \o <<"3">>, Comprobante),
     Comprobante,
     QName(SatCfdPrefix, Comprobante),
     QName(UrnCfd, Comprobante)}

(***************************************************************************)
(* get_namespace (xml_parser.py 10-22).  The Optional[str] result is       *)
(* [some |-> FALSE] for None and [some |-> TRUE, val |-> text] otherwise.  *)
(***************************************************************************)
\* A variant that returns the whole namespace URI.
GetNamespaceWholeUri(tag) ==
    IF Contains(tag, "}")
    THEN [some |-> TRUE, val |-> Strip(SplitHead(tag, "}"), "{")]
    ELSE [some |-> FALSE, val |-> <<>>]

GetNamespace(tag) ==
    IF Contains(tag, "}")
    THEN [some |-> TRUE,
          val |-> SplitLast(Strip(SplitHead(tag, "}"), "{"), "/")]
    ELSE [some |-> FALSE, val |-> <<>>]

\* A variant that tests cfdi_version is None.
NotVersionNoneOnly(v) == ~v.some

\* not cfdi_version: None or the empty string
NotVersion(v) == ~v.some \/ v.val = <<>>

\* namespaces["cfdi"], line 98
CfdiNamespace(cfdi_version) == SatCfdPrefix \o cfdi_version

(***************************************************************************)
(* The document an uploaded file holds.                                    *)
(***************************************************************************)
\* <cfdi:Emisor Nombre=.../>, a child of the root, in namespace ns
NoEmisor == [present |-> FALSE, ns |-> <<>>, Nombre |-> None]
Emisor(ns, nombre) == [present |-> TRUE, ns |-> ns, Nombre |-> nombre]

\* <tfd:TimbreFiscalDigital UUID=.../>, anywhere beneath the root
NoTimbre == [present |-> FALSE, UUID |-> None]
Timbre(uuid) == [present |-> TRUE, UUID |-> uuid]

\* Bytes that are not well-formed XML (also: no bytes at all)
Malformed ==
    [wellformed |-> FALSE, tag |-> <<>>, SubTotal |-> None,
     emisor |-> NoEmisor, nomina |-> NoNomina, timbre |-> NoTimbre]

Document(tag, subtotal, emisor, nomina, timbre) ==
    [wellformed |-> TRUE, tag |-> tag, SubTotal |-> subtotal,
     emisor |-> emisor, nomina |-> nomina, timbre |-> timbre]

\* An UploadedFile: an object (id) with a name and the bytes of its stream
File(id, name, content) == [id |-> id, name |-> name, content |-> content]

\* What a read of the file's stream returns from the position pos
ReadStream(file, pos) == IF pos = "start" THEN file.content ELSE Malformed

(***************************************************************************)
(* datetime.strptime(text, "%Y-%m-%d").date() (xml_parser.py 120-121) on   *)
(* the pay-period texts of the model: a date <<year, month, day>>, or      *)
(* ValueError.                                                             *)
(***************************************************************************)
\* A variant that accepts every text.
StrpTimeLenient(text) == [ok |-> TRUE, date |-> <<>>]

StrpTime(text) ==
    CASE text = "2024-01-01" -> [ok |-> TRUE, date |-> <<2024, 1, 1>>]
      [] text = "2024-01-15" -> [ok |-> TRUE, date |-> <<2024, 1, 15>>]
      [] text = "2024-1-5" -> [ok |-> TRUE, date |-> <<2024, 1, 5>>]
      [] OTHER -> [ok |-> FALSE, date |-> <<>>]

(***************************************************************************)
(* extract_emisor_nomina_info (xml_parser.py 25-43)                        *)
(***************************************************************************)
\* A variant that finds the Emisor child whatever its namespace.
FindEmisorAnyNamespace(root, cfdi_ns) == root.emisor

\* root.find("cfdi:Emisor", namespaces): the Emisor child in that namespace
FindEmisor(root, cfdi_ns) ==
    IF root.emisor.present /\ root.emisor.ns = cfdi_ns
    THEN root.emisor
    ELSE NoEmisor

ExtractEmisorNominaInfo(root, cfdi_ns) ==
    LET emisor == FindEmisor(root, cfdi_ns)
        emisor_name == IF emisor.present
                       THEN AttrGet(emisor.Nombre, "Not Found")
                       ELSE "Not Found"
    IN  [emisor_name |-> emisor_name, nomina |-> root.nomina]

(***************************************************************************)
(* parse_xml (xml_parser.py 79-140)                                        *)
(***************************************************************************)
Raise(exc) == [exc |-> exc, data |-> <<>>]
Return(data) == [exc |-> "none", data |-> data]

\* A variant that defaults to "Not Found".
SubTotalDefaultNotFound(root) == AttrGet(root.SubTotal, "Not Found")

\* root.get("SubTotal", "0.00"), line 115
SubTotal(root) == AttrGet(root.SubTotal, "0.00")

\* A variant that stands an attribute-less element in for a missing stamp.
FindTimbreOrBlank(root) ==
    IF root.timbre.present THEN root.timbre ELSE Timbre(None)

\* root.find(".//tfd:TimbreFiscalDigital", namespaces), line 118
FindTimbre(root) == root.timbre

\* The try block, lines 90-134, on the document ET.parse reads: the dict
\* it returns, or the first exception it raises.
ParseXmlTry(root) ==
    IF ~root.wellformed
    THEN Raise("ParseError")                                     \* line 90
    ELSE
    LET cfdi_version == GetNamespace(root.tag)
    IN  IF NotVersion(cfdi_version)
        THEN Raise("ValueError")                                 \* line 95
        ELSE
    LET cfdi_ns == CfdiNamespace(cfdi_version.val)
        info == ExtractEmisorNominaInfo(root, cfdi_ns)
        nomina == info.nomina
        if_nomina == Truthy(nomina.present, NominaLen(nomina))
    IN  IF if_nomina /\ ~nomina.receptor.present
        THEN Raise("AttributeError")                             \* line 105
        ELSE
    LET position == IF if_nomina
                    THEN AttrGet(nomina.receptor.Puesto, "Not Found")
                    ELSE "Not Found"
        fecha_inicial_pago == IF if_nomina
                              THEN AttrGet(nomina.FechaInicialPago, "Not Found")
                              ELSE "Not Found"
        fecha_final_pago == IF if_nomina
                            THEN AttrGet(nomina.FechaFinalPago, "Not Found")
                            ELSE "Not Found"
        subtotal == SubTotal(root)
        deductions == ParseDeductions(nomina)
        timbre == FindTimbre(root)
    IN  IF ~timbre.present
        THEN Raise("AttributeError")                             \* line 118
        ELSE
    LET uuid == timbre.UUID
        inicial == StrpTime(fecha_inicial_pago)
        final == StrpTime(fecha_final_pago)
    IN  IF ~inicial.ok \/ ~final.ok
        THEN Raise("ValueError")                                 \* 120-121
        ELSE Return([start_date |-> inicial.date,
                     end_date |-> final.date,
                     fiscal_folio |-> uuid,
                     client |-> info.emisor_name,
                     position |-> position,
                     gross_income |-> subtotal,
                     imss |-> deductions[1],
                     isr |-> deductions[2]])

\* A variant of the except clauses that handles ET.ParseError only.
ExceptClauseParseErrorOnly(exc) ==
    IF exc = "ParseError" THEN "ParseError" ELSE "propagate"

\* The except clause that handles exc, lines 135-140.  ParseError,
\* ValueError and AttributeError are all subclasses of Exception.
ExceptClause(exc) ==
    IF exc = "ParseError"
    THEN "ParseError"
    ELSE IF exc \in {"ValueError", "AttributeError"}
         THEN "Exception"
         ELSE "propagate"

\* The values a call returns: a dict, None, or an exception left uncaught
ResultDict(data) == [kind |-> "dict", data |-> data]
ResultNone == [kind |-> "None"]
ResultRaise(exc) == [kind |-> "raise", exc |-> exc]

\* A variant of the handlers in which only the ParseError clause prints.
PrintedLinesParseErrorOnly(clause, file_path, exc) ==
    IF clause = "ParseError"
    THEN <<[text |-> "XML parsing error in file",
            file |-> file_path, exc |-> exc]>>
    ELSE <<>>

\* The print calls of the except clauses, lines 136 and 139: the text, the
\* file object formatted into it, and the exception
PrintedLines(clause, file_path, exc) ==
    IF clause = "ParseError"
    THEN <<[text |-> "XML parsing error in file",
            file |-> file_path, exc |-> exc]>>
    ELSE IF clause = "Exception"
         THEN <<[text |-> "Unexpected error processing file",
                 file |-> file_path, exc |-> exc]>>
         ELSE <<>>

\* The identity of an UploadedFile object as its formatting shows it
Who(file) == [id |-> file.id, name |-> file.name]

\* parse_xml(file) with the file's stream at pos: the result, the lines
\* printed, and the position the stream is left at.
ParseXml(file, pos) ==
    LET try == ParseXmlTry(ReadStream(file, pos))
        clause == IF try.exc = "none" THEN "none" ELSE ExceptClause(try.exc)
    IN  [result |->
            IF try.exc = "none"
            THEN ResultDict(try.data)
            ELSE IF clause = "propagate"
                 THEN ResultRaise(try.exc)
                 ELSE ResultNone,
         printed |-> PrintedLines(clause, Who(file), try.exc),
         pos |-> "eof"]

(***************************************************************************)
(* Values the variables of a specification hold while another              *)
(* specification runs.                                                     *)
(***************************************************************************)
DedIdle ==
    /\ ded_nomina = NoNomina
    /\ imss = None
    /\ isr = None
    /\ scan_idx = 0
    /\ scan_pc = "off"

ParseIdle ==
    /\ doc = None
    /\ doc_pos = "start"
    /\ parse_result = None
    /\ first_result = None
    /\ parse_calls = 0

LoadIdle ==
    /\ uploaded_files = <<>>
    /\ stream_pos = <<>>
    /\ sorted_files = <<>>
    /\ files_data = <<>>
    /\ data_src = <<>>
    /\ attempted = <<>>
    /\ pc = "off"
    /\ st_errors = <<>>
    /\ expander_shown = FALSE

CrudIdle ==
    /\ table = <<>>
    /\ session = "off"
    /\ crud_call = None
    /\ crud_ret = None
    /\ table_before = <<>>
    /\ deleted = {}

CsvIdle ==
    /\ df = <<>>
    /\ csv_row = 0
    /\ csv_session = "off"
    /\ transactions = <<>>
    /\ csv_results = None
    /\ csv_errors = <<>>
    /\ csv_pc = "off"

PageIdle ==
    /\ total_rows = 0
    /\ rows_per_page = None
    /\ selected_page = 0
    /\ paginated_data = {}

SwapIdle ==
    /\ password = None
    /\ secret_password = None
    /\ db_file_name = None
    /\ uploaded_db = None
    /\ db_file = None
    /\ swap_msgs = <<>>

AppIdle == CrudIdle /\ CsvIdle /\ PageIdle /\ SwapIdle

XmlIdle == DedIdle /\ ParseIdle /\ LoadIdle /\ stdout = <<>>

(***************************************************************************)
(* SpecDed: parse_deductions, one loop iteration per step.                 *)
(***************************************************************************)
\* The nomina arguments: None, a Nomina without Deducciones, and a Nomina
\* whose Deducciones holds up to MaxDeducciones entries.
DedNominas ==
    {NoNomina}
    \cup {Nomina("2024-01-01", "2024-01-15", Receptor("Dev"), d, 0) :
            d \in {NoDeducciones}
                  \cup {Deducciones(e) :
                          e \in BoundedSeq(DeduccionEntries, MaxDeducciones)}}

DedInit ==
    /\ ded_nomina \in DedNominas
    /\ imss = None
    /\ isr = None
    /\ scan_idx = 0
    /\ scan_pc = "call"
    /\ ParseIdle
    /\ LoadIdle
    /\ AppIdle
    /\ stdout = <<>>

\* lines 59-64: the early return, the defaults, and the test of deducciones
DedEnter ==
    /\ scan_pc = "call"
    /\ imss' = "0.00"
    /\ isr' = "0.00"
    /\ scan_pc' = IF /\ ded_nomina.present
                     /\ Truthy(ded_nomina.deducciones.present,
                               DeduccionesLen(ded_nomina.deducciones))
                  THEN "scan"
                  ELSE "return"
    /\ UNCHANGED <<ded_nomina, scan_idx, parseVars, loadVars, stdout, appVars>>

\* lines 65-75: the loop body on the next Deduccion entry
DedIterate ==
    /\ scan_pc = "scan"
    /\ scan_idx < Len(ded_nomina.deducciones.entries)
    /\ LET st == DeduccionBody([imss |-> imss, isr |-> isr, brk |-> FALSE],
                               ded_nomina.deducciones.entries[scan_idx + 1])
       IN  /\ imss' = st.imss
           /\ isr' = st.isr
           /\ scan_pc' = IF st.brk THEN "return" ELSE "scan"
    /\ scan_idx' = scan_idx + 1
    /\ UNCHANGED <<ded_nomina, parseVars, loadVars, stdout, appVars>>

\* line 65 with no entry left, then line 76
DedExhausted ==
    /\ scan_pc = "scan"
    /\ scan_idx = Len(ded_nomina.deducciones.entries)
    /\ scan_pc' = "return"
    /\ UNCHANGED <<ded_nomina, imss, isr, scan_idx, parseVars, loadVars, stdout,
                   appVars>>

DedNext == DedEnter \/ DedIterate \/ DedExhausted

SpecDed == DedInit /\ [][DedNext]_vars

\* The step-by-step scan returns what ParseDeductions computes.
DedAgrees ==
    scan_pc = "return" => <<imss, isr>> = ParseDeductions(ded_nomina)

\* The Importe (with its default) of the first entry of type tipo
RECURSIVE FirstImporte(_, _, _)
FirstImporte(entries, tipo, i) ==
    IF i > Len(entries)
    THEN "0.00"
    ELSE IF entries[i].TipoDeduccion = tipo
         THEN AttrGet(entries[i].Importe, "0.00")
         ELSE FirstImporte(entries, tipo, i + 1)

\* The Importe of the first entry of type tipo whose amount is not "0.00"
RECURSIVE FirstCaptured(_, _, _)
FirstCaptured(entries, tipo, i) ==
    IF i > Len(entries)
    THEN "0.00"
    ELSE IF /\ entries[i].TipoDeduccion = tipo
            /\ AttrGet(entries[i].Importe, "0.00") # "0.00"
         THEN entries[i].Importe
         ELSE FirstCaptured(entries, tipo, i + 1)

CountTipo(entries, tipo) ==
    Cardinality({i \in 1..Len(entries) : entries[i].TipoDeduccion = tipo})

\* C8: when the Deducciones container holds several entries of type "001"
\* (or "002"), the returned imss (or isr) is the Importe of the first such
\* entry in document order (the first entry of the type, or the first one
\* carrying an amount other than the "0.00" default).
C8_FirstMatchWins ==
    scan_pc = "return" =>
        LET entries == ded_nomina.deducciones.entries
        IN  /\ CountTipo(entries, "001") > 1
                => imss \in {FirstImporte(entries, "001", 1),
                             FirstCaptured(entries, "001", 1)}
            /\ CountTipo(entries, "002") > 1
                => isr \in {FirstImporte(entries, "002", 1),
                            FirstCaptured(entries, "002", 1)}

\* The example of C8: 001=100.00, 001=150.00, 002=50.00
C8_Example ==
    <<Deduccion("001", "100.00"), Deduccion("001", "150.00"),
      Deduccion("002", "50.00")>>

\* What the scan returns on the example: the second 001 entry overwrites
\* the first, because the break is taken only once isr is set.
C8_ExampleResult ==
    (scan_pc = "return" /\ ded_nomina.deducciones.entries = C8_Example)
        => (imss = "150.00" /\ isr = "50.00")

\* C9: once both imss and isr hold a captured (non-"0.00") amount the scan
\* has stopped, and the returned pair is the same whatever entries follow
\* the entry at which the second of the two was captured (none, or any
\* other entry).
C9_EarlyExit ==
    (scan_pc \in {"scan", "return"} /\ imss # "0.00" /\ isr # "0.00") =>
        /\ scan_pc = "return"
        /\ \A tail \in BoundedSeq(DeduccionEntries, 1) :
              ParseDeductions(
                  [ded_nomina EXCEPT !.deducciones.entries =
                      SubSeq(ded_nomina.deducciones.entries, 1, scan_idx)
                      \o tail])
              = <<imss, isr>>

\* Both amounts captured with entries left after the capturing entry.
C9_Witness ==
    /\ scan_pc = "return"
    /\ imss # "0.00"
    /\ isr # "0.00"
    /\ scan_idx < Len(ded_nomina.deducciones.entries)

\* C18: parse_deductions returns imss = isr = "0.00" whenever the Nomina
\* node is absent or has no Deducciones container, and when the container
\* holds entries of only one of the types "001" and "002" the amount of the
\* other type stays "0.00".
C18_DefaultsWhenAbsent ==
    scan_pc = "return" =>
        /\ (~ded_nomina.present \/ ~ded_nomina.deducciones.present)
              => (imss = "0.00" /\ isr = "0.00")
        /\ CountTipo(ded_nomina.deducciones.entries, "001") = 0
              => imss = "0.00"
        /\ CountTipo(ded_nomina.deducciones.entries, "002") = 0
              => isr = "0.00"

\* The scan has returned on a container with an ISR entry carrying an
\* amount, an entry of another type, and no IMSS entry.
C18_Witness ==
    /\ scan_pc = "return"
    /\ ded_nomina.present
    /\ ded_nomina.deducciones.present
    /\ CountTipo(ded_nomina.deducciones.entries, "001") = 0
    /\ CountTipo(ded_nomina.deducciones.entries, "003") > 0
    /\ isr \notin {"0.00"}
    /\ imss = "0.00"

\* C25: the scan stops at an entry only when, after that entry, both imss
\* and isr differ from "0.00": an entry of type "001" or "002" whose
\* amount is "0.00" (or missing) does not stop the scan; and once both
\* differ from "0.00" the scan has stopped.
C25_StopsOnlyWhenBothCaptured ==
    /\ (/\ scan_pc = "return"
        /\ ded_nomina.deducciones.present
        /\ scan_idx < Len(ded_nomina.deducciones.entries))
          => (imss # "0.00" /\ isr # "0.00")
    /\ (scan_pc \in {"scan", "return"} /\ imss # "0.00" /\ isr # "0.00")
          => scan_pc = "return"

(***************************************************************************)
(* SpecParse: parse_xml called on one uploaded file, possibly again on the *)
(* same object (whose stream the first call has read to its end) or on a   *)
(* fresh upload of the same bytes.                                         *)
(***************************************************************************)
FileNameA == <<97>>

SampleDeducciones ==
    <<Deduccion("001", "100.00"), Deduccion("002", "50.00"),
      Deduccion("001", "150.00")>>

ParseNominas ==
    {NoNomina}
    \cup {Nomina(inicial, final, receptor, deducciones, others) :
            inicial \in {None, "2024-01-01", "01/01/2024"},
            final \in {None, "2024-01-15", "2024-02-30"},
            receptor \in {NoReceptor, Receptor(None), Receptor("Dev")},
            deducciones \in {NoDeducciones, Deducciones(<<>>),
                             Deducciones(SampleDeducciones)},
            others \in {0, 1}}

ParseEmisores ==
    {NoEmisor,
     Emisor(SatCfdPrefix \o <<"4">>, None),
     Emisor(SatCfdPrefix \o <<"4">>, "ACME"),
     Emisor(SatCfdPrefix \o <<"3">>, "ACME")}

ParseTimbres == {NoTimbre, Timbre(None), Timbre(""), Timbre("UUID-1")}

ParseDocs ==
    {Malformed}
    \cup {Document(tag, subtotal, emisor, nomina, timbre) :
            tag \in RootTags,
            subtotal \in {None, "1000.00"},
            emisor \in ParseEmisores,
            nomina \in ParseNominas,
            timbre \in ParseTimbres}

ParseInit ==
    /\ doc \in {File(1, FileNameA, content) : content \in ParseDocs}
    /\ doc_pos = "start"
    /\ parse_result = None
    /\ first_result = None
    /\ parse_calls = 0
    /\ stdout = <<>>
    /\ DedIdle
    /\ LoadIdle
    /\ AppIdle

\* A call parse_xml(doc)
ParseCall ==
    /\ parse_calls < MaxParseCalls
    /\ LET r == ParseXml(doc, doc_pos)
       IN  /\ parse_result' = r.result
           /\ first_result' = IF parse_calls = 0 THEN r.result ELSE first_result
           /\ stdout' = stdout \o r.printed
           /\ doc_pos' = r.pos
    /\ parse_calls' = parse_calls + 1
    /\ UNCHANGED <<doc, dedVars, loadVars, appVars>>

\* The same bytes arrive as a new UploadedFile, its stream at the start
ParseReupload ==
    /\ doc_pos = "eof"
    /\ doc_pos' = "start"
    /\ UNCHANGED <<doc, parse_result, first_result, parse_calls, stdout,
                   dedVars, loadVars, appVars>>

ParseNext == ParseCall \/ ParseReupload

SpecParse == ParseInit /\ [][ParseNext]_vars

RecordFields ==
    {"start_date", "end_date", "fiscal_folio", "client", "position",
     "gross_income", "imss", "isr"}

\* The failure kinds of a document, read off the document itself
NamespaceUnresolved(d) == d.wellformed /\ ~Contains(d.tag, "}")
StampMissing(d) == d.wellformed /\ ~d.timbre.present
DateUnparseable(d) ==
    /\ d.wellformed
    /\ d.nomina.present
    /\ \/ ~StrpTime(AttrGet(d.nomina.FechaInicialPago, "Not Found")).ok
       \/ ~StrpTime(AttrGet(d.nomina.FechaFinalPago, "Not Found")).ok
\* another traversal fault: the Receptor lookup on a Nomina without one
ReceptorMissing(d) ==
    d.wellformed /\ d.nomina.present /\ ~d.nomina.receptor.present

\* C6: parse_xml never raises past its boundary and never returns a partial
\* record: every call returns None or a dict with all eight fields, and a
\* document with an unresolved namespace, malformed XML, a missing stamp
\* node or an unparseable date returns None.
C6_NoRaiseNoPartial ==
    parse_calls > 0 =>
        /\ parse_result.kind \in {"dict", "None"}
        /\ parse_result.kind = "dict"
              => DOMAIN parse_result.data = RecordFields
        /\ (\/ ~doc.content.wellformed
            \/ NamespaceUnresolved(doc.content)
            \/ StampMissing(doc.content)
            \/ DateUnparseable(doc.content))
              => parse_result = ResultNone

\* A well-formed document without stamp node has been parsed to None, and
\* the failure was printed.
C6_Witness ==
    /\ parse_calls = 1
    /\ StampMissing(doc.content)
    /\ ~NamespaceUnresolved(doc.content)
    /\ parse_result = ResultNone
    /\ Len(stdout) = 1

\* C7: a well-formed document with a namespace and version token on its
\* root tag, a stamp node with a UUID and well-formed pay-period dates on
\* its Nomina node is extracted successfully from a fresh upload, whatever
\* Emisor, Receptor and Deducciones nodes it has, with fiscal_folio equal
\* to the UUID attribute.
C7_SufficientForSuccess ==
    (/\ parse_calls = 1
     /\ doc.content.wellformed
     /\ ~NotVersion(GetNamespace(doc.content.tag))
     /\ doc.content.timbre.present
     /\ doc.content.timbre.UUID # None
     /\ doc.content.nomina.present
     /\ doc.content.nomina.FechaInicialPago # None
     /\ doc.content.nomina.FechaFinalPago # None
     /\ StrpTime(doc.content.nomina.FechaInicialPago).ok
     /\ StrpTime(doc.content.nomina.FechaFinalPago).ok)
        => /\ parse_result.kind = "dict"
           /\ parse_result.data.fiscal_folio = doc.content.timbre.UUID

\* C10: every returned record has a present, non-empty fiscal_folio, and a
\* document whose stamp node lacks the UUID attribute yields no record.
C10_FolioPresent ==
    parse_calls > 0 =>
        /\ parse_result.kind = "dict"
              => parse_result.data.fiscal_folio \notin {None, ""}
        /\ (doc.content.timbre.present /\ doc.content.timbre.UUID = None)
              => parse_result.kind # "dict"

\* The namespace URIs of the namespaced root tags, and the URI of a tag
NamespaceUris ==
    {SatCfdPrefix \o <<"4">>, SatCfdPrefix \o <<"3">>, SatCfdPrefix, UrnCfd}
UriOf(tag) == CHOOSE uri \in NamespaceUris : tag = QName(uri, Comprobante)

\* The part of a URI after its last "/" (the whole URI when it has none)
LastSegment(uri) ==
    LET slashes == {i \in 1..Len(uri) : uri[i] = "/"}
    IN  IF slashes = {}
        THEN uri
        ELSE LET last == CHOOSE i \in slashes : \A k \in slashes : k <= i
             IN  SubSeq(uri, last + 1, Len(uri))

\* The root tag carries a namespace with a non-empty last segment
VersionResolved(d) ==
    d.wellformed /\ Contains(d.tag, "}") /\ LastSegment(UriOf(d.tag)) # <<>>

\* A document that lacks nothing but, possibly, its stamp node: a resolved
\* version, a Nomina node with a Receptor child and well-formed dates
CompleteButStamp(d) ==
    /\ VersionResolved(d)
    /\ d.nomina.present
    /\ d.nomina.receptor.present
    /\ d.nomina.FechaInicialPago = "2024-01-01"
    /\ d.nomina.FechaFinalPago = "2024-01-15"

\* C11: a well-formed document with no TimbreFiscalDigital node beneath its
\* root fails: parse_xml returns None for it, whatever else it holds.
C11_NoStampNoRecord ==
    (parse_calls > 0 /\ doc.content.wellformed /\ ~doc.content.timbre.present)
        => /\ parse_result = ResultNone
           /\ parse_calls = 1 => Len(stdout) = 1

\* A document complete but for its stamp node has been parsed to None on
\* the attribute lookup on the missing node.
C11_Witness ==
    /\ parse_calls = 1
    /\ CompleteButStamp(doc.content)
    /\ ~doc.content.timbre.present
    /\ parse_result = ResultNone
    /\ stdout[1].exc = "AttributeError"

\* A calendar date as <<year, month, day>>
IsDate(d) ==
    /\ Len(d) = 3
    /\ d[1] \in Nat
    /\ d[2] \in 1..12
    /\ d[3] \in 1..31

\* Pay-period texts that are not a YYYY-MM-DD date (None: attribute absent,
\* read as the default "Not Found")
BadDateTexts == {None, "Not Found", "01/01/2024", "2024-02-30"}

\* C12: start_date and end_date of every record are date values parsed
\* from the pay-period attributes; a document whose Nomina node is absent,
\* or lacks one of the two attributes, or carries a text that is not a
\* well-formed date in one of them, yields no record.
C12_DatesParsedOrNoRecord ==
    parse_calls > 0 =>
        LET nomina == doc.content.nomina
        IN  /\ parse_result.kind = "dict" =>
                  /\ IsDate(parse_result.data.start_date)
                  /\ IsDate(parse_result.data.end_date)
                  /\ nomina.FechaInicialPago = "2024-01-01"
                        => parse_result.data.start_date = <<2024, 1, 1>>
                  /\ nomina.FechaFinalPago = "2024-01-15"
                        => parse_result.data.end_date = <<2024, 1, 15>>
            /\ (doc.content.wellformed /\ ~nomina.present)
                  => parse_result = ResultNone
            /\ (\/ nomina.FechaInicialPago \in BadDateTexts
                \/ nomina.FechaFinalPago \in BadDateTexts)
                  => parse_result = ResultNone

\* A document complete but for its FechaFinalPago attribute has been
\* parsed to None on the "Not Found" default.
C12_Witness ==
    /\ parse_calls = 1
    /\ VersionResolved(doc.content)
    /\ doc.content.timbre.present
    /\ doc.content.nomina.present
    /\ doc.content.nomina.receptor.present
    /\ doc.content.nomina.FechaInicialPago = "2024-01-01"
    /\ doc.content.nomina.FechaFinalPago = None
    /\ parse_result = ResultNone
    /\ stdout[1].exc = "ValueError"

\* The fields read under the Nomina and TimbreFiscalDigital namespaces
FixedNamespaceFields ==
    {"start_date", "end_date", "fiscal_folio", "position", "imss", "isr"}

\* C13: get_namespace returns the last "/"-separated segment of the
\* namespace URI of a "{uri}local" tag ("4" for the CFDI 4.0 root); the
\* Emisor is looked up under http://www.sat.gob.mx/cfd/<segment>; what is
\* read under the Nomina and TimbreFiscalDigital namespaces is the same
\* whatever the segment.
C13_VersionFromRootTag ==
    (parse_calls > 0 /\ doc.content.wellformed
        /\ Contains(doc.content.tag, "}")) =>
        LET root == doc.content
            token == LastSegment(UriOf(root.tag))
            ns == GetNamespace(root.tag)
        IN  /\ ns.some
            /\ ns.val = token
            /\ root.tag = QName(SatCfdPrefix \o <<"4">>, Comprobante)
                  => ns.val = <<"4">>
            /\ parse_result.kind = "dict" =>
                  /\ (root.emisor.present /\ root.emisor.Nombre # None) =>
                        (parse_result.data.client = root.emisor.Nombre
                            <=> root.emisor.ns = SatCfdPrefix \o token)
                  /\ \A tag \in RootTags :
                        (Contains(tag, "}") /\ LastSegment(UriOf(tag)) # <<>>)
                          => LET r == ParseXmlTry([root EXCEPT !.tag = tag])
                             IN  /\ r.exc = "none"
                                 /\ \A f \in FixedNamespaceFields :
                                       r.data[f] = parse_result.data[f]

\* A CFDI 4.0 document whose Emisor is in the cfd/4 namespace has been
\* extracted with the Emisor's name.
C13_Witness ==
    /\ parse_calls = 1
    /\ doc.content.tag = QName(SatCfdPrefix \o <<"4">>, Comprobante)
    /\ doc.content.emisor = Emisor(SatCfdPrefix \o <<"4">>, "ACME")
    /\ parse_result.kind = "dict"
    /\ parse_result.data.client = "ACME"

\* C14: on a root tag without namespace get_namespace returns None without
\* raising, and parse_xml fails the document with the ValueError of line
\* 95, before any sub-element is looked up, and returns None; the same
\* when the namespace URI ends in "/" and the version token is empty.
C14_NoNamespaceValueError ==
    (parse_calls > 0 /\ doc.content.wellformed
        /\ ~VersionResolved(doc.content)) =>
        /\ ~Contains(doc.content.tag, "}")
              => ~GetNamespace(doc.content.tag).some
        /\ parse_result = ResultNone
        /\ parse_calls = 1 =>
              stdout = <<[text |-> "Unexpected error processing file",
                          file |-> Who(doc), exc |-> "ValueError"]>>

\* A document without root namespace and without stamp node or Receptor
\* has failed with the ValueError, not on a sub-element lookup.
C14_Witness ==
    /\ parse_calls = 1
    /\ doc.content.wellformed
    /\ ~Contains(doc.content.tag, "}")
    /\ ~doc.content.timbre.present
    /\ doc.content.nomina.present
    /\ NominaLen(doc.content.nomina) > 0
    /\ ~doc.content.nomina.receptor.present
    /\ parse_result = ResultNone
    /\ stdout[1].exc = "ValueError"

\* C15: when the Nomina node is present, position is the Puesto attribute
\* of its Receptor child, or "Not Found" when the Receptor child or the
\* attribute is missing; a missing Receptor child does not make the
\* document fail.  Stated on documents that are otherwise complete and
\* whose Nomina node has at least one child element.
C15_PositionOrDefault ==
    (/\ parse_calls = 1
     /\ VersionResolved(doc.content)
     /\ doc.content.timbre.present
     /\ doc.content.nomina.present
     /\ NominaLen(doc.content.nomina) > 0
     /\ doc.content.nomina.FechaInicialPago = "2024-01-01"
     /\ doc.content.nomina.FechaFinalPago = "2024-01-15")
        => /\ parse_result.kind = "dict"
           /\ parse_result.data.position =
                 (IF /\ doc.content.nomina.receptor.present
                     /\ doc.content.nomina.receptor.Puesto # None
                  THEN doc.content.nomina.receptor.Puesto
                  ELSE "Not Found")

\* C16: client is the Nombre attribute of the Emisor child of the root in
\* the primary namespace, and "Not Found" when there is no such child or
\* it has no Nombre; whether a fresh document fails does not depend on its
\* Emisor.
C16_ClientOrDefault ==
    (parse_calls > 0 /\ doc.content.wellformed) =>
        LET root == doc.content
            primary == CfdiNamespace(GetNamespace(root.tag).val)
        IN  /\ parse_result.kind = "dict" =>
                  parse_result.data.client =
                     (IF /\ root.emisor.present
                         /\ root.emisor.ns = primary
                         /\ root.emisor.Nombre # None
                      THEN root.emisor.Nombre
                      ELSE "Not Found")
            /\ parse_calls = 1 =>
                  \A emisor \in ParseEmisores :
                     (ParseXmlTry([root EXCEPT !.emisor = emisor]).exc = "none")
                        <=> parse_result.kind = "dict"

\* A CFDI 4.0 document whose only Emisor element is in the cfd/3 namespace
\* has been extracted with client "Not Found".
C16_Witness ==
    /\ parse_calls = 1
    /\ doc.content.tag = QName(SatCfdPrefix \o <<"4">>, Comprobante)
    /\ doc.content.emisor = Emisor(SatCfdPrefix \o <<"3">>, "ACME")
    /\ parse_result.kind = "dict"
    /\ parse_result.data.client = "Not Found"

\* C17: gross_income is the SubTotal attribute of the root, verbatim, or
\* "0.00" when the root has none; it is the same whatever Receptor and
\* Deducciones children the Nomina node has.
C17_GrossIncomeFromRoot ==
    (parse_calls > 0 /\ parse_result.kind = "dict") =>
        LET root == doc.content
            expected == IF root.SubTotal = None THEN "0.00" ELSE root.SubTotal
        IN  /\ parse_result.data.gross_income = expected
            /\ \A receptor \in {Receptor(None), Receptor("Dev")},
                  deducciones \in {NoDeducciones, Deducciones(<<>>),
                                   Deducciones(SampleDeducciones)} :
                  LET r == ParseXmlTry(
                              [root EXCEPT !.nomina.receptor = receptor,
                                           !.nomina.deducciones = deducciones])
                  IN  r.exc = "none" /\ r.data.gross_income = expected

\* A document without SubTotal attribute has been extracted with
\* gross_income "0.00".
C17_Witness ==
    /\ parse_calls = 1
    /\ doc.content.SubTotal = None
    /\ parse_result.kind = "dict"
    /\ parse_result.data.gross_income = "0.00"

\* C19: a second call of parse_xml on the same document returns a result
\* equal in all fields to the result of the first call.
C19_RerunSameResult ==
    parse_calls > 1 => parse_result = first_result

\* What a rerun does return: the first result when the bytes arrive in a
\* stream at its start, None when the stream is the one the first call
\* read to its end.
C19_RerunOnConsumedStream ==
    parse_calls > 1 => parse_result \in {first_result, ResultNone}

\* C24: a Nomina node counts as present because it exists, whatever its
\* content: a fresh document with resolved namespace and stamp node whose
\* Nomina node has well-formed FechaInicialPago and FechaFinalPago
\* attributes and no child element is extracted, with the dates read from
\* those attributes.
C24_PresenceByExistence ==
    (/\ parse_calls = 1
     /\ VersionResolved(doc.content)
     /\ doc.content.timbre.present
     /\ doc.content.nomina.present
     /\ NominaLen(doc.content.nomina) = 0
     /\ doc.content.nomina.FechaInicialPago = "2024-01-01"
     /\ doc.content.nomina.FechaFinalPago = "2024-01-15")
        => /\ parse_result.kind = "dict"
           /\ parse_result.data.start_date = <<2024, 1, 1>>
           /\ parse_result.data.end_date = <<2024, 1, 15>>

(***************************************************************************)
(* load_xmls (load_files.py 10-38)                                         *)
(***************************************************************************)
\* a < b for Python strings (tuples of code points): lexicographic
RECURSIVE LexLess(_, _)
LexLess(a, b) ==
    IF b = <<>>
    THEN FALSE
    ELSE IF a = <<>>
         THEN TRUE
         ELSE IF Head(a) < Head(b)
              THEN TRUE
              ELSE IF Head(a) > Head(b)
                   THEN FALSE
                   ELSE LexLess(Tail(a), Tail(b))

\* Insertion of file x behind every element whose name is not greater
RECURSIVE InsertByName(_, _)
InsertByName(sorted, x) ==
    IF sorted = <<>>
    THEN <<x>>
    ELSE IF LexLess(x.name, Head(sorted).name)
         THEN <<x>> \o sorted
         ELSE <<Head(sorted)>> \o InsertByName(Tail(sorted), x)

RECURSIVE SortPrefix(_, _)
SortPrefix(files, n) ==
    IF n = 0 THEN <<>> ELSE InsertByName(SortPrefix(files, n - 1), files[n])

\* A variant of the sort that leaves the upload order as it is.
UploadOrder(files) == files

\* A variant of the sort with the order reversed.
SortedDescending(files) ==
    LET asc == SortPrefix(files, Len(files))
    IN  [i \in 1..Len(asc) |-> asc[Len(asc) + 1 - i]]

\* sorted(uploaded_files, key=lambda x: x.name), line 24: ascending by name,
\* and stable (files of equal name keep their order).
SortedByName(files) == SortPrefix(files, Len(files))

\* The names of the uploaded files: "a", "ab", "b"
FileNames == {<<97>>, <<97, 98>>, <<98>>}

ValidDoc(uuid) ==
    Document(QName(SatCfdPrefix \o <<"4">>, Comprobante), "1000.00",
             Emisor(SatCfdPrefix \o <<"4">>, "ACME"),
             Nomina("2024-01-01", "2024-01-15", Receptor("Dev"),
                    Deducciones(SampleDeducciones), 1),
             Timbre(uuid))

\* A well-formed document without TimbreFiscalDigital node
NoStampDoc ==
    Document(QName(SatCfdPrefix \o <<"4">>, Comprobante), None, NoEmisor,
             NoNomina, NoTimbre)

\* The documents of a batch: two that parse, one that is not well-formed,
\* one without stamp node
LoadDocs == {ValidDoc("UUID-1"), ValidDoc("UUID-2"), Malformed, NoStampDoc}

LoadInit ==
    /\ \E n \in 0..MaxFiles :
         \E names \in [1..n -> FileNames], contents \in [1..n -> LoadDocs] :
            uploaded_files = [i \in 1..n |-> File(i, names[i], contents[i])]
    /\ stream_pos = [i \in 1..Len(uploaded_files) |-> "start"]
    /\ sorted_files = <<>>
    /\ files_data = <<>>
    /\ data_src = <<>>
    /\ attempted = <<>>
    /\ pc = "idle"
    /\ st_errors = <<>>
    /\ expander_shown = FALSE
    /\ stdout = <<>>
    /\ DedIdle
    /\ ParseIdle
    /\ AppIdle

\* A variant that opens the expander before it looks at the collection.
LoadBeginShowsFirst ==
    /\ pc = "idle"
    /\ expander_shown' = TRUE
    /\ IF uploaded_files = <<>>
       THEN /\ pc' = "done"
            /\ sorted_files' = <<>>
       ELSE /\ pc' = "loop"
            /\ sorted_files' = SortedByName(uploaded_files)
    /\ files_data' = <<>>
    /\ UNCHANGED <<uploaded_files, stream_pos, data_src, attempted, st_errors,
                   stdout, dedVars, parseVars, appVars>>

\* lines 21-25: the early return on an empty collection, else the sort
LoadBegin ==
    /\ pc = "idle"
    /\ IF uploaded_files = <<>>
       THEN /\ pc' = "done"
            /\ sorted_files' = <<>>
       ELSE /\ pc' = "loop"
            /\ sorted_files' = SortedByName(uploaded_files)
    /\ files_data' = <<>>
    /\ UNCHANGED <<uploaded_files, stream_pos, data_src, attempted, st_errors,
                   expander_shown, stdout, dedVars, parseVars, appVars>>

\* A variant of the loop iteration that leaves the loop on a failure.
LoadIterateStopOnFailure ==
    /\ pc = "loop"
    /\ LET uploaded_file == sorted_files[Len(attempted) + 1]
           r == ParseXml(uploaded_file, stream_pos[uploaded_file.id])
       IN  /\ attempted' = Append(attempted, Who(uploaded_file))
           /\ stream_pos' = [stream_pos EXCEPT ![uploaded_file.id] = r.pos]
           /\ stdout' = stdout \o r.printed
           /\ files_data' = Append(files_data, r.result)
           /\ data_src' = Append(data_src, Who(uploaded_file))
           /\ pc' = IF \/ Len(attempted) + 1 = Len(sorted_files)
                       \/ r.result.kind # "dict"
                    THEN "tail"
                    ELSE "loop"
    /\ UNCHANGED <<uploaded_files, sorted_files, st_errors, expander_shown,
                   dedVars, parseVars, appVars>>

\* lines 27-32: one iteration of the for loop on the next sorted file
LoadIterate ==
    /\ pc = "loop"
    /\ LET uploaded_file == sorted_files[Len(attempted) + 1]
           r == ParseXml(uploaded_file, stream_pos[uploaded_file.id])
       IN  /\ attempted' = Append(attempted, Who(uploaded_file))
           /\ stream_pos' = [stream_pos EXCEPT ![uploaded_file.id] = r.pos]
           /\ stdout' = stdout \o r.printed
           /\ IF r.result.kind = "raise"
              THEN \* except Exception as e: st.error(...)
                   /\ st_errors' =
                         Append(st_errors,
                                [text |-> "Error processing file",
                                 name |-> uploaded_file.name,
                                 exc |-> r.result.exc])
                   /\ UNCHANGED <<files_data, data_src>>
              ELSE \* files_data.append(data)
                   /\ files_data' = Append(files_data, r.result)
                   /\ data_src' = Append(data_src, Who(uploaded_file))
                   /\ UNCHANGED st_errors
    /\ pc' = IF Len(attempted) + 1 = Len(sorted_files) THEN "tail" ELSE "loop"
    /\ UNCHANGED <<uploaded_files, sorted_files, expander_shown, dedVars,
                   parseVars, appVars>>

\* lines 34-38: the expander with the details, and the return
LoadFinish ==
    /\ pc = "tail"
    /\ expander_shown' = (files_data # <<>>)
    /\ pc' = "done"
    /\ UNCHANGED <<uploaded_files, stream_pos, sorted_files, files_data,
                   data_src, attempted, st_errors, stdout, dedVars,
                   parseVars, appVars>>

Next == LoadBegin \/ LoadIterate \/ LoadFinish

Init == LoadInit

Spec == Init /\ [][Next]_vars

(***************************************************************************)
(* Properties of load_xmls                                                 *)
(***************************************************************************)
\* The result of extracting the file alone, from a fresh upload
Alone(file) == ParseXml(file, "start").result

Failed(file) == Alone(file).kind # "dict"

FileOf(who) == uploaded_files[who.id]

FileIds == 1..Len(uploaded_files)

\* What load_xmls returns for a collection of fresh uploads
LoadXmlsReturn(files) ==
    IF files = <<>>
    THEN <<>>
    ELSE LET sorted == SortedByName(files)
             results == [i \in 1..Len(sorted) |-> Alone(sorted[i])]
             IsData(r) == r.kind # "raise"
         IN  SelectSeq(results, IsData)

\* The step-by-step run returns what LoadXmlsReturn computes.
LoadAgrees == pc = "done" => files_data = LoadXmlsReturn(uploaded_files)

Permutations(n) ==
    {p \in [1..n -> 1..n] : \A i, j \in 1..n : p[i] = p[j] => i = j}

Permute(files, p) == [i \in 1..Len(files) |-> files[p[i]]]

\* C1: the returned sequence holds only records of documents whose
\* extraction succeeded (no None placeholder), so its length is the number
\* of successfully extracted documents.
C1_OnlyExtractedRecords ==
    pc = "done" =>
        /\ \A k \in 1..Len(files_data) : files_data[k].kind = "dict"
        /\ Len(files_data)
              = Cardinality({i \in FileIds : ~Failed(uploaded_files[i])})

\* The notices reported for a file: the lines parse_xml printed for that
\* file object and the st.error calls naming it
NoticesFor(file) ==
    Cardinality({k \in 1..Len(stdout) : stdout[k].file = Who(file)})
    + Cardinality({k \in 1..Len(st_errors) : st_errors[k].name = file.name})

\* C2: a batch with K failing documents ends with exactly K failure notices
\* (printed lines and st.error calls together), one for each failed
\* document and naming its file, and every document ends with a record in
\* the output or with a notice.
C2_OneNoticePerFailure ==
    pc = "done" =>
        /\ Len(stdout) + Len(st_errors)
              = Cardinality({i \in FileIds : Failed(uploaded_files[i])})
        /\ \A i \in FileIds :
              IF Failed(uploaded_files[i])
              THEN NoticesFor(uploaded_files[i]) = 1
              ELSE \E k \in 1..Len(files_data) :
                      /\ data_src[k] = Who(uploaded_files[i])
                      /\ files_data[k].kind = "dict"

\* A batch has ended in which a malformed document and a document without
\* stamp node failed and another document was extracted.
C2_Witness ==
    /\ pc = "done"
    /\ Len(stdout) = 2
    /\ \E i, j \in FileIds :
          /\ uploaded_files[i].content = Malformed
          /\ uploaded_files[j].content = NoStampDoc
    /\ \E k \in 1..Len(files_data) : files_data[k].kind = "dict"

\* C3: documents are extracted in ascending filename order and the output
\* is in that order: of two output elements, the one from the file with
\* the smaller name comes first.
C3_FilenameAscending ==
    /\ \A i, j \in 1..Len(attempted) :
          i < j => ~LexLess(attempted[j].name, attempted[i].name)
    /\ \A i, j \in 1..Len(data_src) :
          i < j => ~LexLess(data_src[j].name, data_src[i].name)
    /\ Len(data_src) = Len(files_data)

\* A batch uploaded in descending name order has been loaded.
C3_Witness ==
    /\ pc = "done"
    /\ Len(files_data) >= 3
    /\ \A i \in 1..(Len(uploaded_files) - 1) :
          LexLess(uploaded_files[i + 1].name, uploaded_files[i].name)

\* The extracted records of an output sequence, in order
Records(output) ==
    LET IsDict(r) == r.kind = "dict" IN SelectSeq(output, IsDict)

\* C4 as stated: every ordering of the same collection of uploaded
\* documents, equal filenames included, gives the same output sequence
\* (compared here on the extracted records alone, so that a difference in
\* the place of a failed document's None does not count).
C4_OrderIndependent ==
    pc = "done" =>
        \A p \in Permutations(Len(uploaded_files)) :
            Records(LoadXmlsReturn(Permute(uploaded_files, p)))
                = Records(files_data)

\* Documents that carry the same filename have the same extraction result
SameNameSameResult ==
    \A i, j \in FileIds :
        uploaded_files[i].name = uploaded_files[j].name
            => Alone(uploaded_files[i]) = Alone(uploaded_files[j])

\* C4 amended: every ordering of the same collection gives the same output
\* sequence provided documents of equal filename have equal extraction
\* results (in particular when the filenames are pairwise distinct).
C4_OrderIndependentByName ==
    (pc = "done" /\ SameNameSameResult) =>
        \A p \in Permutations(Len(uploaded_files)) :
            LoadXmlsReturn(Permute(uploaded_files, p)) = files_data

\* A batch out of name order, with two files of one name and equal result
\* and a file of another result, has been loaded.
C4_Witness ==
    /\ pc = "done"
    /\ SameNameSameResult
    /\ \E i, j \in FileIds :
          /\ i < j
          /\ uploaded_files[i].name = uploaded_files[j].name
    /\ \E i, j \in FileIds :
          /\ i < j
          /\ LexLess(uploaded_files[j].name, uploaded_files[i].name)
          /\ Alone(uploaded_files[i]) # Alone(uploaded_files[j])

\* C5: the result obtained for each document of the batch is the result of
\* extracting it alone, whatever the other documents do, and a failure
\* does not stop the loop: when it ends every document has been attempted.
C5_Independent ==
    /\ \A k \in 1..Len(files_data) :
          files_data[k] = Alone(FileOf(data_src[k]))
    /\ pc \in {"tail", "done"} =>
          /\ Len(attempted) = Len(uploaded_files)
          /\ {attempted[k].id : k \in 1..Len(attempted)} = FileIds
          /\ Len(files_data) + Len(st_errors) = Len(attempted)

\* A batch has ended in which a failing document came before one that was
\* extracted.
C5_Witness ==
    /\ pc = "done"
    /\ \E i, j \in 1..Len(files_data) :
          /\ i < j
          /\ files_data[i].kind = "None"
          /\ files_data[j].kind = "dict"

\* C20: load_xmls on an empty collection returns an empty list without
\* calling parse_xml, printing, reporting an error or opening the
\* expander; and the expander is opened only when the list returned is
\* not empty.
C20_EmptyInputNoEffects ==
    /\ (pc = "done" /\ uploaded_files = <<>>) =>
          /\ files_data = <<>>
          /\ attempted = <<>>
          /\ stdout = <<>>
          /\ st_errors = <<>>
          /\ ~expander_shown
    /\ expander_shown => (pc = "done" /\ files_data # <<>>)

\* load_xmls has returned on an empty collection.
C20_Witness ==
    /\ pc = "done"
    /\ uploaded_files = <<>>
    /\ files_data = <<>>
    /\ ~expander_shown

(***************************************************************************)
(* db/crud.py on one Session and the table of one model.  The model is     *)
(* IncomePayroll (schemas_tables.py 129-149) reduced to its id, its unique *)
(* column fiscal_folio and its plain column client; the database is SQLite *)
(* (database.py 12, test_crud.py 11).                                      *)
(***************************************************************************)
MaxRecords == 2

\* Python values that are false in a condition, besides None
PyEmptyStr == "''"
PyZero == "0"
PyFalse == "False"
ValueTruthy(value) == value \notin {None, PyEmptyStr, PyZero, PyFalse}

\* The columns of the model set through obj_in, and inspect(model).attrs
Fields == {"fiscal_folio", "client"}
UniqueFields == {"fiscal_folio"}
MapperAttrs == {"id"} \cup Fields

\* A row of the table, and the value that stands for "no instance"
Row(id, fiscal_folio, client) ==
    [id |-> id, fiscal_folio |-> fiscal_folio, client |-> client]
NoRow == Row(0, None, None)

\* obj_in dictionaries
Dict1(key, value) == [k \in {key} |-> value]
Dict2(fiscal_folio, client) ==
    [k \in Fields |-> IF k = "client" THEN client ELSE fiscal_folio]
EmptyDict == [k \in {} |-> None]
DictGet(dict, key) == IF key \in DOMAIN dict THEN dict[key] ELSE None

\* The rows of a table as a query without ORDER BY returns them: by rowid
RECURSIVE RowSeq(_, _)
RowSeq(t, ids) ==
    IF ids = {}
    THEN <<>>
    ELSE LET least == CHOOSE i \in ids : \A k \in ids : i <= k
         IN  <<t[least]>> \o RowSeq(t, ids \ {least})

\* .offset(skip).limit(limit).all()
OffsetLimit(rows, skip, limit) ==
    SubSeq(rows, skip + 1,
           IF Len(rows) < skip + limit THEN Len(rows) ELSE skip + limit)

\* The default of the limit parameter
DefaultLimit == 100

\* The id SQLite gives an inserted row of an INTEGER PRIMARY KEY table: one
\* more than the largest id in the table
NextId(t) ==
    IF DOMAIN t = {}
    THEN 1
    ELSE (CHOOSE i \in DOMAIN t : \A k \in DOMAIN t : k <= i) + 1

\* The table with row put at its id
Put(t, row) ==
    [i \in DOMAIN t \cup {row.id} |-> IF i = row.id THEN row ELSE t[i]]

\* The table without the row of that id
Remove(t, id) == [i \in DOMAIN t \ {id} |-> t[i]]

\* db.commit() of a flush that would leave t: the UNIQUE constraint
IntegrityError(t) ==
    \E i, j \in DOMAIN t :
        /\ i # j
        /\ \E f \in UniqueFields : t[i][f] # None /\ t[i][f] = t[j][f]

\* Results of a call
RetObj(row) == [kind |-> "obj", obj |-> row, rows |-> <<>>, exc |-> "none"]
RetList(rows) == [kind |-> "list", obj |-> NoRow, rows |-> rows, exc |-> "none"]
RetNone == [kind |-> "None", obj |-> NoRow, rows |-> <<>>, exc |-> "none"]
RetRaise(exc) == [kind |-> "raise", obj |-> NoRow, rows |-> <<>>, exc |-> exc]

\* The outcome of a call: the table, the session state and the result
Outcome(t, sess, ret) == [table |-> t, session |-> sess, ret |-> ret]

\* Any use of a Session whose flush failed and that was not rolled back
PendingRollback(t) == Outcome(t, "deactive", RetRaise("PendingRollbackError"))

\* get_all, line 25
GetAll(t, sess, skip, limit) ==
    IF sess = "deactive"
    THEN PendingRollback(t)
    ELSE Outcome(t, sess,
                 RetList(OffsetLimit(RowSeq(t, DOMAIN t), skip, limit)))

\* column == field_value over the rows
Filter(rows, field_name, field_value) ==
    SelectSeq(rows, LAMBDA row : row[field_name] = field_value)

\* A variant of get_by_field without the test of the field name.
GetByFieldUnchecked(t, sess, field_name, field_value, skip, limit) ==
    IF sess = "deactive"
    THEN PendingRollback(t)
    ELSE Outcome(t, sess,
                 RetList(IF field_name \in MapperAttrs
                         THEN OffsetLimit(Filter(RowSeq(t, DOMAIN t),
                                                 field_name, field_value),
                                          skip, limit)
                         ELSE <<>>))

\* get_by_field, lines 47-55
GetByField(t, sess, field_name, field_value, skip, limit) ==
    IF field_name \notin MapperAttrs
    THEN Outcome(t, sess, RetRaise("ValueError"))
    ELSE IF sess = "deactive"
         THEN PendingRollback(t)
         ELSE Outcome(t, sess,
                      RetList(OffsetLimit(Filter(RowSeq(t, DOMAIN t),
                                                 field_name, field_value),
                                          skip, limit)))

\* A variant of create that returns the instance without storing it.
CreateNoCommit(t, sess, obj_in) ==
    Outcome(t, sess,
            RetObj(Row(NextId(t), DictGet(obj_in, "fiscal_folio"),
                       DictGet(obj_in, "client"))))

\* create, lines 67-71
Create(t, sess, obj_in) ==
    LET obj == Row(NextId(t), DictGet(obj_in, "fiscal_folio"),
                   DictGet(obj_in, "client"))
    IN  IF sess = "deactive"
        THEN PendingRollback(t)
        ELSE IF IntegrityError(Put(t, obj))
             THEN Outcome(t, "deactive", RetRaise("IntegrityError"))
             ELSE Outcome(Put(t, obj), sess, RetObj(obj))

\* A variant of the lookup that takes the first row when the id is absent.
FirstOrAny(t, obj_id) ==
    IF obj_id \in DOMAIN t
    THEN t[obj_id]
    ELSE IF DOMAIN t = {} THEN NoRow ELSE RowSeq(t, DOMAIN t)[1]

\* db.query(model).filter(model.id == obj_id).first(), line 86, and
\* db.query(model).get(obj_id), line 105
First(t, obj_id) == IF obj_id \in DOMAIN t THEN t[obj_id] ELSE NoRow

\* A variant of the loop that sets every entry of obj_in.
SetAttrsAll(obj, obj_in) ==
    [f \in DOMAIN obj |->
        IF f \in DOMAIN obj_in THEN obj_in[f] ELSE obj[f]]

\* lines 88-89: setattr(obj, var, value) if value else None
SetAttrs(obj, obj_in) ==
    [f \in DOMAIN obj |->
        IF f \in DOMAIN obj_in /\ ValueTruthy(obj_in[f])
        THEN obj_in[f]
        ELSE obj[f]]

\* A variant of update that returns the changed instance without storing it.
UpdateNoCommit(t, sess, obj_id, obj_in) ==
    IF First(t, obj_id) # NoRow
    THEN Outcome(t, sess, RetObj(SetAttrs(First(t, obj_id), obj_in)))
    ELSE Outcome(t, sess, RetNone)

\* update, lines 86-93
Update(t, sess, obj_id, obj_in) ==
    IF sess = "deactive"
    THEN PendingRollback(t)
    ELSE LET obj == First(t, obj_id)
         IN  IF obj # NoRow
             THEN LET changed == SetAttrs(obj, obj_in)
                  IN  IF IntegrityError(Put(t, changed))
                      THEN Outcome(t, "deactive", RetRaise("IntegrityError"))
                      ELSE Outcome(Put(t, changed), sess, RetObj(changed))
             ELSE Outcome(t, sess, RetNone)

\* A variant of delete that empties the table.
DeleteAll(t, sess, obj_id) ==
    IF First(t, obj_id) # NoRow
    THEN Outcome(<<>>, sess, RetObj(First(t, obj_id)))
    ELSE Outcome(t, sess, RetNone)

\* delete, lines 105-110
Delete(t, sess, obj_id) ==
    IF sess = "deactive"
    THEN PendingRollback(t)
    ELSE LET obj == First(t, obj_id)
         IN  IF obj # NoRow
             THEN Outcome(Remove(t, obj_id), sess, RetObj(obj))
             ELSE Outcome(t, sess, RetNone)

(***************************************************************************)
(* SpecCrud: calls of the five functions on one session, and the           *)
(* rollback of the session by its owner (test_crud.py 20-24).              *)
(***************************************************************************)
\* The call made, with the parameters it does not have at their defaults
Call(fn, obj_id, obj_in, field_name, field_value, skip, limit) ==
    [fn |-> fn, obj_id |-> obj_id, obj_in |-> obj_in,
     field_name |-> field_name, field_value |-> field_value,
     skip |-> skip, limit |-> limit]
NoCall == Call("none", 0, <<>>, None, None, 0, DefaultLimit)

\* Inputs of the calls
CreateDicts ==
    {Dict1("fiscal_folio", "A"), Dict1("client", "A"), Dict2("A", "A"),
     Dict2("B", "A")}
UpdateDicts ==
    {EmptyDict, Dict1("fiscal_folio", "B"), Dict1("client", "B"),
     Dict2("B", "B"), Dict1("fiscal_folio", PyEmptyStr),
     Dict1("client", PyZero), Dict2("B", PyFalse), Dict2(None, "B")}
ObjIds == 1..(MaxRecords + 1)
FieldNames == {"fiscal_folio", "client", "nombre"}
FieldValues == {"A", "B"}
Windows == {<<0, DefaultLimit>>, <<1, 1>>}

CrudInit ==
    /\ table = <<>>
    /\ session = "active"
    /\ crud_call = NoCall
    /\ crud_ret = RetNone
    /\ table_before = <<>>
    /\ deleted = {}
    /\ XmlIdle
    /\ CsvIdle
    /\ PageIdle
    /\ SwapIdle

\* The effect of a call with outcome out
Effect(call, out) ==
    /\ crud_call' = call
    /\ crud_ret' = out.ret
    /\ table_before' = table
    /\ table' = out.table
    /\ session' = out.session
    /\ UNCHANGED <<xmlVars, csvVars, pageVars, swapVars>>

CrudCreate ==
    \E obj_in \in CreateDicts :
        /\ NextId(table) <= MaxRecords
        /\ Effect(Call("create", 0, obj_in, None, None, 0, DefaultLimit),
                  Create(table, session, obj_in))
        /\ UNCHANGED deleted

CrudUpdate ==
    \E obj_id \in ObjIds, obj_in \in UpdateDicts :
        /\ Effect(Call("update", obj_id, obj_in, None, None, 0, DefaultLimit),
                  Update(table, session, obj_id, obj_in))
        /\ UNCHANGED deleted

CrudDelete ==
    \E obj_id \in ObjIds :
        LET out == Delete(table, session, obj_id)
        IN  /\ Effect(Call("delete", obj_id, <<>>, None, None, 0,
                           DefaultLimit), out)
            /\ deleted' = IF out.ret.kind = "obj"
                          THEN deleted \cup {obj_id}
                          ELSE deleted

CrudGetAll ==
    \E w \in Windows :
        /\ Effect(Call("get_all", 0, <<>>, None, None, w[1], w[2]),
                  GetAll(table, session, w[1], w[2]))
        /\ UNCHANGED deleted

CrudGetByField ==
    \E field_name \in FieldNames, field_value \in FieldValues :
        /\ Effect(Call("get_by_field", 0, <<>>, field_name, field_value, 0,
                       DefaultLimit),
                  GetByField(table, session, field_name, field_value, 0,
                             DefaultLimit))
        /\ UNCHANGED deleted

\* db.rollback() by the owner of the session
CrudRollback ==
    /\ session = "deactive"
    /\ Effect(Call("rollback", 0, <<>>, None, None, 0, DefaultLimit),
              Outcome(table, "active", RetNone))
    /\ UNCHANGED deleted

CrudNext ==
    \/ CrudCreate
    \/ CrudUpdate
    \/ CrudDelete
    \/ CrudGetAll
    \/ CrudGetByField
    \/ CrudRollback

SpecCrud == CrudInit /\ [][CrudNext]_vars

\* The table is a table: ids are keys, and the unique column is unique.
CrudTypeOK ==
    /\ \A i \in DOMAIN table : table[i].id = i
    /\ ~IntegrityError(table)
    /\ DOMAIN table \subseteq 1..MaxRecords

\* The rows a result list holds
RowsIn(ret) == {ret.rows[k] : k \in 1..Len(ret.rows)}

\* What a read of the current table with the default window returns
ReadAll == GetAll(table, session, 0, DefaultLimit).ret
ReadBy(field_name, field_value) ==
    GetByField(table, session, field_name, field_value, 0, DefaultLimit).ret

\* Every row but the one of that id is what it was before the call
OthersUnchanged(id) ==
    /\ DOMAIN table \ {id} = DOMAIN table_before \ {id}
    /\ \A i \in DOMAIN table \ {id} : table[i] = table_before[i]

C22_UpdateCommitted ==
    crud_call.fn = "update" =>
        LET obj == crud_ret.obj
            obj_in == crud_call.obj_in
        IN  /\ crud_ret.kind = "obj" =>
                  /\ crud_call.obj_id \in DOMAIN table_before
                  /\ obj.id = crud_call.obj_id
                  /\ \A f \in DOMAIN obj_in :
                        ValueTruthy(obj_in[f]) => obj[f] = obj_in[f]
                  /\ table[obj.id] = obj
                  /\ obj \in RowsIn(ReadAll)
                  /\ \A f \in DOMAIN obj_in :
                        ValueTruthy(obj_in[f])
                            => obj \in RowsIn(ReadBy(f, obj_in[f]))
                  /\ OthersUnchanged(obj.id)
            /\ crud_ret.kind = "raise" => table = table_before
            /\ crud_call.obj_id \in DOMAIN table_before
                  => crud_ret.kind \in {"obj", "raise"}

\* update has changed both fields of one of two rows.
C22_Witness ==
    /\ crud_call.fn = "update"
    /\ crud_ret.kind = "obj"
    /\ crud_call.obj_in = Dict2("B", "B")
    /\ Cardinality(DOMAIN table) = 2
    /\ table_before[crud_ret.obj.id].fiscal_folio = "A"
    /\ table_before[crud_ret.obj.id].client = "A"
    /\ table[crud_ret.obj.id] = Row(crud_ret.obj.id, "B", "B")

\* C23 as stated: once delete has returned the row of an id, no later read
\* returns a row with that id.
C23_NeverReturnedAgain ==
    \A id \in deleted :
        /\ id \notin DOMAIN table
        /\ \A row \in RowsIn(ReadAll) : row.id # id

\* C23, amended: delete on an existing id returns the row deleted, removes
\* it and changes no other row, so that reads return no row with that id;
\* a row with a deleted id is in the table again only once a later create
\* has been given that id, as the successor of the largest id in the
\* table.
C23_DeletedUntilIdReused ==
    /\ (crud_call.fn = "delete" /\ crud_call.obj_id \in DOMAIN table_before
            /\ crud_ret.kind # "raise") =>
          /\ crud_ret = RetObj(table_before[crud_call.obj_id])
          /\ table = Remove(table_before, crud_call.obj_id)
          /\ OthersUnchanged(crud_call.obj_id)
          /\ \A row \in RowsIn(ReadAll) : row.id # crud_call.obj_id
          /\ \A f \in Fields, v \in {None, "A", "B"} :
                \A row \in RowsIn(ReadBy(f, v)) : row.id # crud_call.obj_id
    /\ \A id \in deleted :
          (id \in DOMAIN table /\ id \notin DOMAIN table_before) =>
              /\ crud_call.fn = "create"
              /\ crud_ret.kind = "obj"
              /\ crud_ret.obj.id = id
              /\ \A i \in DOMAIN table_before : i < id

\* delete has returned one of two rows and the other is in the table.
C23_Witness ==
    /\ crud_call.fn = "delete"
    /\ crud_ret.kind = "obj"
    /\ Cardinality(DOMAIN table_before) = 2
    /\ Cardinality(DOMAIN table) = 1
    /\ crud_call.obj_id \notin DOMAIN table

\* C26: update sets only the entries of obj_in whose value is true in a
\* condition: a field supplied with "", 0, False or None keeps the value
\* stored before, and the call still returns the row (unchanged when every
\* supplied value is of that kind).
C26_FalsyValuesSkipped ==
    (crud_call.fn = "update" /\ crud_call.obj_id \in DOMAIN table_before
        /\ crud_ret.kind # "raise") =>
        LET before == table_before[crud_call.obj_id]
            obj_in == crud_call.obj_in
        IN  /\ crud_ret.kind = "obj"
            /\ \A f \in Fields :
                  (f \in DOMAIN obj_in /\ ~ValueTruthy(obj_in[f])) =>
                      /\ crud_ret.obj[f] = before[f]
                      /\ table[crud_call.obj_id][f] = before[f]
            /\ (\A f \in DOMAIN obj_in : ~ValueTruthy(obj_in[f])) =>
                  (crud_ret.obj = before /\ table = table_before)
            /\ \A f \in Fields :
                  table[crud_call.obj_id][f] \notin {PyEmptyStr, PyZero, PyFalse}

\* update with fiscal_folio "B" and client False has returned the row with
\* the new fiscal_folio and the client it had.
C26_Witness ==
    /\ crud_call.fn = "update"
    /\ crud_call.obj_in = Dict2("B", PyFalse)
    /\ crud_ret.kind = "obj"
    /\ table_before[crud_call.obj_id] = Row(crud_call.obj_id, "A", "A")
    /\ crud_ret.obj = Row(crud_call.obj_id, "B", "A")

\* C27: update and delete that return on an id that is not in the table
\* return None and leave the table as it was; get_by_field on a name that
\* is not an attribute of the model raises ValueError, whatever the state
\* of the session (no query is made), and leaves table and session as they
\* were.
C27_MissingIdOrField ==
    /\ (crud_call.fn \in {"update", "delete"}
            /\ crud_call.obj_id \notin DOMAIN table_before
            /\ crud_ret.kind # "raise") =>
          (crud_ret = RetNone /\ table = table_before)
    /\ (crud_call.fn = "get_by_field"
            /\ crud_call.field_name \notin MapperAttrs) =>
          /\ crud_ret = RetRaise("ValueError")
          /\ table = table_before
    /\ \A field_value \in FieldValues, sess \in {"active", "deactive"} :
          GetByField(table, sess, "nombre", field_value, 0, DefaultLimit)
            = Outcome(table, sess, RetRaise("ValueError"))

\* update with a value to set has returned None on an id that is not in a
\* table of two rows.
C27_Witness ==
    /\ crud_call.fn = "update"
    /\ crud_call.obj_in = Dict2("B", "B")
    /\ crud_call.obj_id \notin DOMAIN table_before
    /\ Cardinality(DOMAIN table_before) = 2
    /\ crud_ret = RetNone
    /\ table = table_before

(***************************************************************************)
(* create_expense_transactions_from_file (insert_tab.py 218-238) with      *)
(* prepare_transaction_data (252-283), get_id_for_name (380-393) and       *)
(* create on ExpenseTransaction (crud.py 58-71, schemas_tables.py 73-91).  *)
(***************************************************************************)
MaxRows == 3

\* A row of the DataFrame: the columns whose value decides what happens
CsvRow(category_name, date, amount) ==
    [category_name |-> category_name, date |-> date, amount |-> amount]
CsvRows ==
    {CsvRow(category_name, date, amount) :
        category_name \in {"Food", "Nope"},
        date \in {"2024-01-01", "bad"},
        amount \in {"12.50", "abc"}}

\* get_id_for_name on expenses_categories, which holds "Food" with id 1
GetIdForName(name) == IF name = "Food" THEN 1 ELSE 0

\* pd.to_datetime(row["date"]).date() and float(row["amount"]) raise on
\* these texts
DateRaises(text) == text = "bad"
FloatRaises(text) == text = "abc"

\* prepare_transaction_data(session, row): the dictionary or the exception
PrepareTransactionData(sess, row) ==
    IF sess = "deactive"
    THEN Raise("PendingRollbackError")                           \* line 263
    ELSE IF DateRaises(row.date)
         THEN Raise("ValueError")                                \* line 272
         ELSE IF FloatRaises(row.amount)
              THEN Raise("ValueError")                           \* line 280
              ELSE Return([category_id |-> GetIdForName(row.category_name),
                           date |-> row.date, amount |-> row.amount])

\* create(session, ExpenseTransaction, data): category_id is NOT NULL
CreateTransaction(sess, data) ==
    IF sess = "deactive"
    THEN [session |-> "deactive", exc |-> "PendingRollbackError"]
    ELSE IF data.category_id = 0
         THEN [session |-> "deactive", exc |-> "IntegrityError"]
         ELSE [session |-> sess, exc |-> "none"]

\* One execution of the try statement of the loop, lines 231-237, on row
\* number i: the exception caught ("none" when the row was inserted) and
\* the state the session is left in
TryRow(sess, row) ==
    LET prepared == PrepareTransactionData(sess, row)
    IN  IF prepared.exc # "none"
        THEN [session |-> sess, exc |-> prepared.exc]
        ELSE CreateTransaction(sess, prepared.data)

CsvInit ==
    /\ df \in BoundedSeq(CsvRows, MaxRows)
    /\ csv_row = 0
    /\ csv_session = "active"
    /\ transactions = <<>>
    /\ csv_results = None
    /\ csv_errors = <<>>
    /\ csv_pc = "idle"
    /\ XmlIdle
    /\ CrudIdle
    /\ PageIdle
    /\ SwapIdle

\* line 229
CsvBegin ==
    /\ csv_pc = "idle"
    /\ csv_results' = [success |-> 0, failed |-> 0]
    /\ csv_pc' = "loop"
    /\ UNCHANGED <<df, csv_row, csv_session, transactions, csv_errors,
                   xmlVars, crudVars, pageVars, swapVars>>

\* A variant of the loop iteration that leaves the loop on a failure.
CsvIterateStopOnFailure ==
    /\ csv_pc = "loop"
    /\ csv_row < Len(df)
    /\ LET try == TryRow(csv_session, df[csv_row + 1])
       IN  /\ csv_session' = try.session
           /\ IF try.exc = "none"
              THEN /\ transactions' = Append(transactions, csv_row + 1)
                   /\ csv_results' =
                         [csv_results EXCEPT !.success = @ + 1]
                   /\ UNCHANGED <<csv_errors, csv_pc>>
              ELSE /\ csv_errors' = Append(csv_errors, csv_row + 1)
                   /\ csv_results' = [csv_results EXCEPT !.failed = @ + 1]
                   /\ csv_pc' = "done"
                   /\ UNCHANGED transactions
    /\ csv_row' = csv_row + 1
    /\ UNCHANGED <<df, xmlVars, crudVars, pageVars, swapVars>>

\* lines 230-237: one iteration of the loop on the next row
CsvIterate ==
    /\ csv_pc = "loop"
    /\ csv_row < Len(df)
    /\ LET try == TryRow(csv_session, df[csv_row + 1])
       IN  /\ csv_session' = try.session
           /\ IF try.exc = "none"
              THEN /\ transactions' = Append(transactions, csv_row + 1)
                   /\ csv_results' =
                         [csv_results EXCEPT !.success = @ + 1]
                   /\ UNCHANGED csv_errors
              ELSE /\ csv_errors' = Append(csv_errors, csv_row + 1)
                   /\ csv_results' = [csv_results EXCEPT !.failed = @ + 1]
                   /\ UNCHANGED transactions
    /\ csv_row' = csv_row + 1
    /\ UNCHANGED <<df, csv_pc, xmlVars, crudVars, pageVars, swapVars>>

\* line 238, once iterrows() is exhausted
CsvReturn ==
    /\ csv_pc = "loop"
    /\ csv_row = Len(df)
    /\ csv_pc' = "done"
    /\ UNCHANGED <<df, csv_row, csv_session, transactions, csv_results,
                   csv_errors, xmlVars, crudVars, pageVars, swapVars>>

CsvNext == CsvBegin \/ CsvIterate \/ CsvReturn

SpecCsv == CsvInit /\ [][CsvNext]_vars

\* The elements of a sequence of row numbers, and whether it is increasing
\* (each row at most once, in the order of the file)
Elements(seq) == {seq[k] : k \in 1..Len(seq)}
Increasing(seq) == \A j, k \in 1..Len(seq) : j < k => seq[j] < seq[k]

\* A row that cannot be inserted, read off the row itself
RowUnusable(row) ==
    row.date = "bad" \/ row.amount = "abc" \/ row.category_name = "Nope"

\* C28: create_expense_transactions_from_file returns counts with
\* success + failed = number of rows; every row has been processed, in
\* order; every row whose preparation or insert raises is reported once and
\* counted as failed, has inserted nothing and has not stopped the rows
\* after it from being processed; every row counted as a success has
\* inserted exactly one transaction.
C28_EveryRowCounted ==
    csv_pc = "done" =>
        /\ csv_results.success + csv_results.failed = Len(df)
        /\ csv_row = Len(df)
        /\ Elements(transactions) \cup Elements(csv_errors) = 1..Len(df)
        /\ Elements(transactions) \cap Elements(csv_errors) = {}
        /\ Increasing(transactions)
        /\ Increasing(csv_errors)
        /\ csv_results.success = Len(transactions)
        /\ csv_results.failed = Len(csv_errors)
        /\ \A i \in 1..Len(df) :
              RowUnusable(df[i]) =>
                  (i \in Elements(csv_errors) /\ i \notin Elements(transactions))

\* The function has returned on a file whose first row failed in its
\* preparation and whose second row was inserted.
C28_Witness ==
    /\ csv_pc = "done"
    /\ Len(df) >= 2
    /\ df[1].amount = "abc"
    /\ csv_errors[1] = 1
    /\ transactions[1] = 2
    /\ csv_results.success >= 1
    /\ csv_results.failed >= 1

\* After a row whose insert raised, the session awaits a rollback that the
\* loop never makes, and every later row fails.
CsvSessionPoisoned ==
    \A i \in 1..csv_row :
        (df[i].category_name = "Nope" /\ df[i].date # "bad"
            /\ df[i].amount # "abc")
          => \A k \in i..csv_row : k \in Elements(csv_errors)

(***************************************************************************)
(* display_table (table_generator.py 151-186) and display_expenses_data    *)
(* (table_tab.py 208-232): the page arithmetic of a render.                *)
(***************************************************************************)
MaxTotalRows == 11
MaxEnvPageSize == 3

\* The value of the rows-per-page select box, or the PAGINATION_SIZE of
\* the environment
AllRows == [all |-> TRUE, size |-> 0]
PerPage(n) == [all |-> FALSE, size |-> n]

\* rows_per_page_options, line 151
RowsPerPageOptions ==
    {AllRows, PerPage(5)} \cup {PerPage(10 * n) : n \in 1..10}

\* int(os.getenv("PAGINATION_SIZE", 10)), table_tab.py 208
EnvPageSizes == {PerPage(n) : n \in 1..MaxEnvPageSize} \cup {PerPage(10)}

\* lines 158-162
PageSize(total, per_page) == IF per_page.all THEN total ELSE per_page.size

\* A variant that drops the page of the remaining rows.
NumPagesFloor(total, per_page) ==
    IF per_page.all THEN 1 ELSE total \div per_page.size

\* lines 159 and 163
NumPages(total, per_page) ==
    IF per_page.all
    THEN 1
    ELSE (total \div per_page.size)
         + (IF total % per_page.size > 0 THEN 1 ELSE 0)

\* max(1, num_pages): max_value of the page number input, lines 166-168
MaxPage(total, per_page) ==
    IF NumPages(total, per_page) < 1 THEN 1 ELSE NumPages(total, per_page)

\* data.iloc[start_row:end_row], lines 179-181, as the positions shown
PaginatedData(total, per_page, page) ==
    LET start_row == (page - 1) * PageSize(total, per_page)
        end_row == start_row + PageSize(total, per_page)
    IN  {i \in 0..(total - 1) : start_row <= i /\ i < end_row}

PageInit ==
    /\ total_rows \in 0..MaxTotalRows
    /\ rows_per_page \in RowsPerPageOptions \cup EnvPageSizes
    /\ selected_page = 1
    /\ paginated_data = PaginatedData(total_rows, rows_per_page, 1)
    /\ XmlIdle
    /\ CrudIdle
    /\ CsvIdle
    /\ SwapIdle

\* The value of the number input in a render with these parameters: the
\* value it had while its max_value is the same, else its default 1
InputValue(total, per_page) ==
    IF MaxPage(total, per_page) = MaxPage(total_rows, rows_per_page)
    THEN selected_page
    ELSE 1

\* A render after the data changed (a filter, an insert)
PageDataChanged ==
    \E total \in 0..MaxTotalRows :
        /\ total # total_rows
        /\ total_rows' = total
        /\ selected_page' = InputValue(total, rows_per_page)
        /\ paginated_data' =
              PaginatedData(total, rows_per_page,
                            InputValue(total, rows_per_page))
        /\ UNCHANGED <<rows_per_page, xmlVars, crudVars, csvVars, swapVars>>

\* A render after another rows-per-page option was selected
PageRowsPerPageSelected ==
    \E per_page \in RowsPerPageOptions :
        /\ per_page # rows_per_page
        /\ rows_per_page' = per_page
        /\ selected_page' = InputValue(total_rows, per_page)
        /\ paginated_data' =
              PaginatedData(total_rows, per_page,
                            InputValue(total_rows, per_page))
        /\ UNCHANGED <<total_rows, xmlVars, crudVars, csvVars, swapVars>>

\* A render after a page was entered in the number input
PageSelected ==
    \E page \in 1..MaxPage(total_rows, rows_per_page) :
        /\ page # selected_page
        /\ selected_page' = page
        /\ paginated_data' = PaginatedData(total_rows, rows_per_page, page)
        /\ UNCHANGED <<total_rows, rows_per_page, xmlVars, crudVars, csvVars,
                       swapVars>>

PageNext == PageDataChanged \/ PageRowsPerPageSelected \/ PageSelected

SpecPage == PageInit /\ [][PageNext]_vars

\* The least of two numbers
Least(a, b) == IF a < b THEN a ELSE b

\* C29: with a numeric rows-per-page p and T rows the number of pages is
\* ceil(T/p), the selected page is within 1..max(1, number of pages), page
\* k shows the rows (k-1)*p .. min(k*p, T)-1, and every row is shown on
\* exactly one page; with "All" there is one page showing all T rows.
C29_Pagination ==
    LET T == total_rows
        p == rows_per_page.size
        n == NumPages(total_rows, rows_per_page)
        last == IF n < 1 THEN 1 ELSE n
    IN  /\ selected_page \in 1..last
        /\ ~rows_per_page.all =>
              /\ n * p >= T
              /\ T > 0 => (n - 1) * p < T
              /\ T = 0 => n = 0
              /\ paginated_data =
                    ((selected_page - 1) * p)
                        .. (Least(selected_page * p, T) - 1)
              /\ \A row \in 0..(T - 1) :
                    Cardinality({k \in 1..last :
                        row \in PaginatedData(T, rows_per_page, k)}) = 1
        /\ rows_per_page.all =>
              /\ n = 1
              /\ paginated_data = 0..(T - 1)

\* The last of three pages is shown, with fewer rows than a full page.
C29_Witness ==
    /\ ~rows_per_page.all
    /\ rows_per_page.size = 5
    /\ total_rows = 11
    /\ selected_page = 3
    /\ paginated_data = {10}

(***************************************************************************)
(* database_manager_upload_tab and upload_db (upload_tab.py 10-33) behind  *)
(* authenticate_user (authentication.py 7-21).  Every interaction with a   *)
(* widget runs the tab again.                                              *)
(***************************************************************************)
\* Texts of the password input, values of DB_PASSWORD and DB_NAME
Passwords == {"", "pw", "guess"}
SecretPasswords == {None, "", "pw", "guess"}
DbFileNames == {None, "finance.db", "other.db"}

\* Files offered to the uploader, and contents of the database file
DbUpload(name, content) == [name |-> name, content |-> content]
NoUpload == DbUpload(None, None)
DbUploads ==
    {DbUpload(name, content) :
        name \in {"finance.db", "other.db"}, content \in {"new1", "new2"}}

\* A variant that does not compare the password with the secret.
AuthenticateUserAnyPassword(pwd, secret) ==
    pwd # "" /\ secret \notin {None, ""}

\* authenticate_user, line 21:
\* password and secret_password and password == secret_password
AuthenticateUser(pwd, secret) ==
    pwd # "" /\ secret \notin {None, ""} /\ pwd = secret

\* db_exists(db_file_name) (utils.py 19-31) for a database file of content
\* file, None when there is no such file
DbExists(file) == file # None

\* upload_db(db_file_name), lines 18-33: the content of the database file
\* and the message shown; written tells whether open() and write() worked
UploadDb(name, uploaded_file, file, written) ==
    IF uploaded_file # NoUpload
    THEN IF uploaded_file.name = name
         THEN IF written
              THEN [db_file |-> uploaded_file.content,
                    msgs |-> <<"Database uploaded successfully.">>]
              ELSE [db_file |-> file, msgs |-> <<"An error occurred">>]
         ELSE [db_file |-> file, msgs |-> <<"Incorrect DB File Name.">>]
    ELSE IF DbExists(file)
         THEN [db_file |-> file, msgs |-> <<"No file uploaded.">>]
         ELSE [db_file |-> file, msgs |-> <<"No database exists">>]

\* database_manager_upload_tab, lines 10-15, with these widget values
UploadTab(pwd, uploaded_file, written) ==
    IF AuthenticateUser(pwd, secret_password)
    THEN UploadDb(db_file_name, uploaded_file, db_file, written)
    ELSE [db_file |-> db_file, msgs |-> <<>>]

SwapInit ==
    /\ password = ""
    /\ secret_password \in SecretPasswords
    /\ db_file_name \in DbFileNames
    /\ uploaded_db = NoUpload
    /\ db_file \in {None, "old"}
    /\ db_file_name = None => db_file = None
    /\ swap_msgs = <<>>
    /\ XmlIdle
    /\ CrudIdle
    /\ CsvIdle
    /\ PageIdle

\* A text is entered in the password input and the tab runs.  The uploader
\* is not part of a run that is not authenticated, and its file is dropped.
SwapPasswordEntered ==
    \E pwd \in Passwords, written \in BOOLEAN :
        LET kept == IF AuthenticateUser(pwd, secret_password)
                    THEN uploaded_db
                    ELSE NoUpload
            run == UploadTab(pwd, kept, written)
        IN  /\ pwd # password
            /\ password' = pwd
            /\ uploaded_db' = kept
            /\ db_file' = run.db_file
            /\ swap_msgs' = run.msgs
            /\ UNCHANGED <<secret_password, db_file_name, xmlVars, crudVars,
                           csvVars, pageVars>>

\* A file is put into, or taken out of, the uploader and the tab runs
SwapFileChosen ==
    \E uploaded_file \in DbUploads \cup {NoUpload}, written \in BOOLEAN :
        LET run == UploadTab(password, uploaded_file, written)
        IN  /\ AuthenticateUser(password, secret_password)
            /\ uploaded_file # uploaded_db
            /\ uploaded_db' = uploaded_file
            /\ db_file' = run.db_file
            /\ swap_msgs' = run.msgs
            /\ UNCHANGED <<password, secret_password, db_file_name, xmlVars,
                           crudVars, csvVars, pageVars>>

\* The tab runs again with the widgets as they are
SwapRerun ==
    \E written \in BOOLEAN :
        LET run == UploadTab(password, uploaded_db, written)
        IN  /\ db_file' = run.db_file
            /\ swap_msgs' = run.msgs
            /\ UNCHANGED <<password, secret_password, db_file_name,
                           uploaded_db, xmlVars, crudVars, csvVars, pageVars>>

SwapNext == SwapPasswordEntered \/ SwapFileChosen \/ SwapRerun

SpecSwap == SwapInit /\ [][SwapNext]_vars

\* The conditions under which the tab writes the database file
SwapAllowed(pwd, uploaded_file) ==
    /\ pwd # ""
    /\ secret_password # None
    /\ secret_password # ""
    /\ pwd = secret_password
    /\ uploaded_file # NoUpload
    /\ uploaded_file.name = db_file_name

\* C30: a run of the tab changes the database file, or reports it as
\* uploaded, only when the password entered is not empty, DB_PASSWORD is
\* set and not empty, the two are equal, and a file is uploaded whose name
\* is the configured database file name; in every other run the database
\* file is left as it was.
C30_SwapOnlyWhenAllowed ==
    [][(\/ db_file' # db_file
        \/ swap_msgs' = <<"Database uploaded successfully.">>)
          => (/\ SwapAllowed(password', uploaded_db')
              /\ db_file' = uploaded_db'.content)]_vars

\* The database file has been replaced by the uploaded file.
C30_Witness ==
    /\ password = "pw"
    /\ secret_password = "pw"
    /\ uploaded_db = DbUpload("finance.db", "new1")
    /\ db_file = "new1"
    /\ swap_msgs = <<"Database uploaded successfully.">>

====
